---- MODULE Spec2Model ----
(***************************************************************************)
(* Model of the pyth-agent Solana oracle (src/agent/solana/oracle.rs):     *)
(* the Oracle task (poll cycle and push handling), the Subscriber task,    *)
(* the two bounded mpsc channels between them and towards the global       *)
(* store, and the remote ledger read through the RPC client.               *)
(***************************************************************************)
EXTENDS Integers, Sequences, FiniteSets, TLC

\* ------------------------------------------------------------------ bounds
\* Number of fetches explored in one mapping-chain traversal (a cyclic
\* chain is walked forever by the code).
MaxTrav == 3
\* config.updates_channel_capacity
UpdatesCap == 1
\* Capacity of the channel to the global store (chosen by the caller of
\* spawn_oracle).
GlobalCap == 1

\* ------------------------------------------------------------- the ledger
\* Pubkey::default(), the all-zero key that ends a chain.
Sentinel == 0

Keys == 1..6

NoAccount == [kind |-> "none"]

MappingData(n, ps) == [kind |-> "mapping", next |-> n, products |-> ps]
ProductData(px) == [kind |-> "product", px_acc |-> px]
\* A price account whose aggregate price is 1.
PriceData(n) == [kind |-> "price", next |-> n, val |-> 1]

\* Two mapping accounts, a price chain of length two, a product without
\* price accounts.
LedgerChain ==
    [k \in Keys |->
        CASE k = 1 -> MappingData(2, <<3>>)
          [] k = 2 -> MappingData(Sentinel, <<4>>)
          [] k = 3 -> ProductData(5)
          [] k = 4 -> ProductData(Sentinel)
          [] k = 5 -> PriceData(6)
          [] OTHER -> PriceData(Sentinel)]

\* One mapping account with two products of one price account each.
LedgerFlat ==
    [k \in Keys |->
        CASE k = 1 -> MappingData(Sentinel, <<3, 4>>)
          [] k = 2 -> NoAccount
          [] k = 3 -> ProductData(5)
          [] k = 4 -> ProductData(6)
          [] OTHER -> PriceData(Sentinel)]

\* One product with one price account; key 6 is no longer referenced.
LedgerSmall ==
    [k \in Keys |->
        CASE k = 1 -> MappingData(Sentinel, <<3>>)
          [] k = 3 -> ProductData(5)
          [] k = 5 -> PriceData(Sentinel)
          [] k = 6 -> PriceData(Sentinel)
          [] OTHER -> NoAccount]

\* A malformed mapping chain: 1 -> 2 -> 1 -> ...
LedgerMappingCycle ==
    [k \in Keys |->
        CASE k = 1 -> MappingData(2, <<>>)
          [] k = 2 -> MappingData(1, <<>>)
          [] OTHER -> NoAccount]

\* A malformed price chain: 5 -> 5 -> ...
LedgerPriceCycle ==
    [k \in Keys |->
        CASE k = 1 -> MappingData(Sentinel, <<3>>)
          [] k = 3 -> ProductData(5)
          [] k = 5 -> PriceData(5)
          [] OTHER -> NoAccount]

\* A product whose px_acc names an account that is not a price account.
LedgerBadPrice ==
    [k \in Keys |->
        CASE k = 1 -> MappingData(Sentinel, <<3>>)
          [] k = 3 -> ProductData(4)
          [] k = 4 -> ProductData(Sentinel)
          [] OTHER -> NoAccount]

Ledgers ==
    {LedgerChain, LedgerFlat, LedgerSmall, LedgerMappingCycle,
     LedgerPriceCycle, LedgerBadPrice}

\* The ledgers of the runs that follow two push notifications.
OrderLedgers == {LedgerSmall, LedgerBadPrice}

\* Values of config.mapping_account_key.
RootKeys == {Sentinel, 1}

\* Keys the change feed reports.
FeedKeys == {5, 6}

\* Bytes that are no price account: the header check of load_price_account
\* rejects them; read as a price account they would hold arbitrary fields.
Garbage == [kind |-> "garbage", next |-> Sentinel, val |-> 0]

\* ----------------------------------------------------------- pure helpers
EmptyMap == [k \in {} |-> Sentinel]

\* HashMap::insert
Insert(m, k, v) == [x \in (DOMAIN m) \cup {k} |-> IF x = k THEN v ELSE m[x]]

\* The orders in which a HashMap or a Vec built from one may be iterated.
Orderings(S) ==
    {s \in [1..Cardinality(S) -> S] : \A i, j \in DOMAIN s : i # j => s[i] # s[j]}

RECURSIVE Concat(_)
Concat(ss) == IF ss = <<>> THEN <<>> ELSE Head(ss) \o Concat(Tail(ss))

IsPrefix(s, t) == Len(s) <= Len(t) /\ SubSeq(t, 1, Len(s)) = s

\* ------------------------------------------------- dashboard: the snapshots
\* Keys of the products and prices the stores report.
DashProductKeys == {1, 2, 3}
DashPriceKeys == {5, 6}

\* Identifier::new(price_key.to_bytes()): the PriceIdentifier with the bytes
\* of a Pubkey.
Identifier(price_key) == [bytes |-> price_key]

\* Pubkey::new_from_array(identifier.to_bytes())
PubkeyOf(identifier) == identifier.bytes

\* A String: a text as it stands, "unnamed product <key>", and either one
\* followed by any number of " (duplicate)".
Str(text) == [text |-> text, key |-> 0, duplicate |-> 0]

\* format!("unnamed product {}", product_key)
UnnamedProduct(product_key) ==
    [text |-> "unnamed product", key |-> product_key, duplicate |-> 0]

\* format!("{} (duplicate)", symbol_name)
Duplicate(symbol_name) == [symbol_name EXCEPT !.duplicate = @ + 1]

\* ProductAccountMetadata.attr_dict: without a symbol, or with one.
AttrDicts == {EmptyMap, [a \in {"symbol"} |-> "ETH/USD"]}

\* ProductAccountMetadata.price_accounts: a Vec, unsorted, with repeats.
PriceLists == {<<>>, <<5>>, <<6, 5, 6>>}

ProductAccountMetadatas == [attr_dict : AttrDicts, price_accounts : PriceLists]

\* AllAccountsMetadata.product_accounts_metadata (the third product lists no
\* price).
ProductMetadataMaps ==
    {m \in UNION {[S -> ProductAccountMetadatas] : S \in SUBSET DashProductKeys} :
        3 \in DOMAIN m => m[3].price_accounts = <<>>}

\* PriceAccountMetadata
PriceAccountMetadata(price_key) == [expo |-> 0 - price_key]

\* AllAccountsMetadata
AllAccountsMetadatas ==
    [product_accounts_metadata : ProductMetadataMaps,
     price_accounts_metadata :
        {[k \in S |-> PriceAccountMetadata(k)] : S \in SUBSET DashPriceKeys}]

\* PriceEntry of the global store
PriceEntry(price_key) == [price |-> price_key, timestamp |-> price_key]

\* AllAccountsData: some products of it have no metadata.
AllAccountsDatas ==
    [product_accounts :
        {[k \in S |-> [price_accounts |-> {}]] : S \in {{}, {1, 4}}},
     price_accounts :
        {[k \in S |-> PriceEntry(k)] : S \in SUBSET DashPriceKeys}]

\* PriceInfo of the local store
PriceInfo(identifier) == [timestamp |-> identifier.bytes + 1]

\* HashMap<PriceIdentifier, PriceInfo>
LocalDatas ==
    {[id \in {Identifier(k) : k \in S} |-> PriceInfo(id)] :
        S \in SUBSET DashPriceKeys}

EmptyAllAccountsData == [product_accounts |-> EmptyMap, price_accounts |-> EmptyMap]

EmptyAllAccountsMetadata ==
    [product_accounts_metadata |-> EmptyMap, price_accounts_metadata |-> EmptyMap]

\* What a oneshot receiver returns: the value the store sent, for the global
\* store an Err in its place, or RecvError when the sender was dropped.
LocalReplies ==
    {[kind |-> "ok", value |-> v] : v \in LocalDatas}
    \cup {[kind |-> "closed", value |-> EmptyMap]}

DataReplies ==
    {[kind |-> "ok", value |-> v] : v \in AllAccountsDatas}
    \cup {[kind |-> k, value |-> EmptyAllAccountsData] : k \in {"err", "closed"}}

MetadataReplies ==
    {[kind |-> "ok", value |-> v] : v \in AllAccountsMetadatas}
    \cup {[kind |-> k, value |-> EmptyAllAccountsMetadata] : k \in {"err", "closed"}}

\* No reply received yet.
NoReplies == [local |-> {}, data |-> {}, metadata |-> {}]

\* No warn! record written yet.
NoWarnings == [duplicate |-> {}, missing |-> {}, orphaned |-> {}]

\* render_dashboard has not returned.
NoResult == [kind |-> "none", rows |-> {}]

\* ------------------------------------------ dashboard: build_dashboard_data
\* Option<V> as a set: None is {}, Some(v) is {v}. HashMap::get and the
\* value HashMap::remove returns.
Get(m, k) == IF k \in DOMAIN m THEN {m[k]} ELSE {}

\* The map HashMap::remove leaves, for each key of S.
Remove(m, S) == [k \in (DOMAIN m) \ S |-> m[k]]

\* all_price_keys_dedup without the keys of the metadata and local snapshots.
ConfirmedPriceKeys(local, gdata, gmeta) == DOMAIN gdata.price_accounts

\* all_price_keys_dedup: the keys of the three price sources.
AllPriceKeys(local, gdata, gmeta) ==
    (DOMAIN gdata.price_accounts)
        \cup (DOMAIN gmeta.price_accounts_metadata)
        \cup {PubkeyOf(id) : id \in DOMAIN local}

\* symbol_name: the symbol attribute, or the product key for unnamed products.
SymbolName(product_metadata, product_key) ==
    IF "symbol" \in DOMAIN product_metadata.attr_dict
    THEN Str(product_metadata.attr_dict["symbol"])
    ELSE UnnamedProduct(product_key)

\* this_product_price_keys_dedup: the price list as a BTreeSet.
PriceKeysDedup(product_metadata) ==
    {product_metadata.price_accounts[i] : i \in DOMAIN product_metadata.price_accounts}

\* A view whose fields all come from the metadata snapshot.
MetadataOnlyPriceView(local, gdata, gmeta, price_key) ==
    [local_data |-> Get(gmeta.price_accounts_metadata, price_key),
     global_data |-> Get(gmeta.price_accounts_metadata, price_key),
     global_metadata |-> Get(gmeta.price_accounts_metadata, price_key)]

\* DashboardPriceView of price_key: each field is what the remove from its
\* source returned.
DashboardPriceView(local, gdata, gmeta, price_key) ==
    [local_data |-> Get(local, Identifier(price_key)),
     global_data |-> Get(gdata.price_accounts, price_key),
     global_metadata |-> Get(gmeta.price_accounts_metadata, price_key)]

\* An insert under the name as it is, whether ret holds it or not.
NoRename(view, symbol_name) == symbol_name

\* The name ret.insert is called with: renamed once when ret holds the name.
Rename(view, symbol_name) ==
    IF symbol_name \in DOMAIN view THEN Duplicate(symbol_name) ELSE symbol_name

\* The body of the loop over all_product_keys_dedup, for product_key, on the
\* locals b of build_dashboard_data.
ProcessProduct(b, product_key) ==
    IF product_key \in DOMAIN b.global_metadata.product_accounts_metadata
    THEN
        LET product_metadata ==
                b.global_metadata.product_accounts_metadata[product_key]
            symbol_name == SymbolName(product_metadata, product_key)
            price_keys == PriceKeysDedup(product_metadata)
            prices ==
                [k \in price_keys |->
                    DashboardPriceView(b.local_data, b.global_data,
                                       b.global_metadata, k)]
            symbol_view == [product |-> product_key, prices |-> prices]
        IN  [local_data |->
                Remove(b.local_data, {Identifier(k) : k \in price_keys}),
             global_data |->
                [product_accounts |->
                    Remove(b.global_data.product_accounts, {product_key}),
                 price_accounts |->
                    Remove(b.global_data.price_accounts, price_keys)],
             global_metadata |->
                [product_accounts_metadata |->
                    Remove(b.global_metadata.product_accounts_metadata,
                           {product_key}),
                 price_accounts_metadata |->
                    Remove(b.global_metadata.price_accounts_metadata,
                           price_keys)],
             all_price_keys_dedup |-> b.all_price_keys_dedup \ price_keys,
             remaining_product_keys |-> b.remaining_product_keys \ {product_key},
             ret |-> Insert(b.ret, Rename(b.ret, symbol_name), symbol_view),
             warnings |->
                IF symbol_name \in DOMAIN b.ret
                THEN [b.warnings EXCEPT !.duplicate = @ \cup {symbol_name}]
                ELSE b.warnings]
    ELSE
        [b EXCEPT
            !.global_data.product_accounts = Remove(@, {product_key}),
            !.warnings.missing = @ \cup {product_key}]

\* The end of build_dashboard_data: the orphan warning.
OrphanWarning(b) ==
    IF ~(b.all_price_keys_dedup = {} /\ b.remaining_product_keys = {})
    THEN {[remaining_product_ids |-> b.remaining_product_keys,
           remaining_price_ids |-> b.all_price_keys_dedup]}
    ELSE {}

\* The locals of build_dashboard_data before its loop.
BuildLocals(local, gdata, gmeta) ==
    [local_data |-> local,
     global_data |-> gdata,
     global_metadata |-> gmeta,
     all_price_keys_dedup |-> AllPriceKeys(local, gdata, gmeta),
     remaining_product_keys |-> DOMAIN gmeta.product_accounts_metadata,
     ret |-> EmptyMap,
     warnings |-> NoWarnings]

\* ------------------------------------------------ dashboard: the table rows
\* A cell: "no data" for None, the formatted field for Some.
Cell(option, field) ==
    IF option = {}
    THEN [text |-> "no data", value |-> 0]
    ELSE [text |-> "value", value |-> (CHOOSE v \in option : TRUE)[field]]

\* The rows render_dashboard builds from symbol_view.
Rows(symbol_view) ==
    UNION {{[symbol |-> symbol,
             product |-> symbol_view[symbol].product,
             price_pubkey |-> k,
             price_string |-> Cell(symbol_view[symbol].prices[k].global_data, "price"),
             last_publish_string |->
                Cell(symbol_view[symbol].prices[k].global_data, "timestamp"),
             last_local_update_string |->
                Cell(symbol_view[symbol].prices[k].local_data, "timestamp")] :
                k \in DOMAIN symbol_view[symbol].prices} :
           symbol \in DOMAIN symbol_view}

VARIABLES
    mapping_account_key,  \* config.mapping_account_key
    subscriber_enabled,   \* config.subscriber_enabled
    updates_channel_capacity, \* config.updates_channel_capacity
    ledger,               \* the remote accounts, read through rpc_client
    data,                 \* Oracle.data
    oracle_pc,            \* where the Oracle task is
    accounts,             \* fetch_mapping_accounts: accounts
    account_key,          \* fetch_mapping_accounts: account_key
    trav,                 \* keys fetched by the current mapping traversal
    products_left,        \* fetch_product_accounts: what the loops still visit
    product_accounts,     \* fetch_product_accounts: product_accounts
    product_account,      \* fetch_product_account: the decoded product
    price_account_key,    \* fetch_product_account: price_account_key
    walk,                 \* fetch_product_account: price_accounts (its keys)
    prices_left,          \* fetch_price_accounts: what the loops still visit
    price_accounts,       \* fetch_price_accounts: price_accounts
    to_send,              \* updates still to send to the global store
    ev,                   \* the event of the current (or last) handle_next
    pre,                  \* Oracle.data when that event began
    sent,                 \* updates sent to the global store for that event
    latest,               \* per key, the last PriceAccountUpdate sent to the
                          \* global store while it holds its receiver
    updates_q,            \* channel Subscriber -> Oracle
    global_q,             \* channel Oracle -> global store
    global_open,          \* the global store still holds its receiver
    sub_pc,               \* where the Subscriber task is
    sub_item,             \* the feed item forward_update holds
    sub_result,           \* result of the last forward_update
    feed,                 \* the change feed: none, open, closed or failed
    dash_pc,              \* where render_dashboard is
    requests,             \* lookups render_dashboard has sent to the stores
    replies,              \* what the three oneshot receivers returned
    local_data,           \* build_dashboard_data: local_data
    global_data,          \* build_dashboard_data: global_data
    global_metadata,      \* build_dashboard_data: global_metadata
    keys_left,            \* all_product_keys_dedup, in the order it iterates
    all_price_keys_dedup, \* build_dashboard_data: all_price_keys_dedup
    remaining_product_keys, \* build_dashboard_data: remaining_product_keys
    ret,                  \* build_dashboard_data: ret
    warnings,             \* warn! records of build_dashboard_data
    render_result,        \* what render_dashboard returned
    trace                 \* history: two notifications of the feed, marked
                          \* 1 and 2 in the order the Subscriber received
                          \* them, followed through the two channels

cfgVars ==
    <<mapping_account_key, subscriber_enabled, updates_channel_capacity>>
pollVars ==
    <<accounts, account_key, trav, products_left, product_accounts,
      product_account, price_account_key, walk, prices_left, price_accounts>>
evVars == <<ev, pre, sent, latest>>
subVars == <<sub_pc, sub_item, sub_result, feed>>
buildVars ==
    <<local_data, global_data, global_metadata, keys_left,
      all_price_keys_dedup, remaining_product_keys, ret, warnings>>
dashVars == <<dash_pc, requests, replies, buildVars, render_result>>
oracleVars ==
    <<cfgVars, ledger, data, oracle_pc, pollVars, to_send, evVars, updates_q,
      global_q, global_open, subVars, trace>>
vars ==
    <<mapping_account_key, subscriber_enabled, updates_channel_capacity, ledger, data, oracle_pc, accounts,
      account_key, trav, products_left, product_accounts, product_account,
      price_account_key, walk, prices_left, price_accounts, to_send, ev, pre,
      sent, latest, updates_q, global_q, global_open, sub_pc, sub_item, sub_result,
      feed,
      dash_pc, requests, replies, local_data, global_data, global_metadata,
      keys_left, all_price_keys_dedup, remaining_product_keys, ret, warnings,
      render_result, trace>>

\* Data::default()
EmptyData ==
    [mapping_accounts |-> EmptyMap, product_accounts |-> EmptyMap,
     price_accounts |-> EmptyMap]

NoEvent == [kind |-> "none", key |-> Sentinel, account |-> NoAccount, result |-> "ok"]
PollEvent == [kind |-> "poll", key |-> Sentinel, account |-> NoAccount, result |-> "running"]
PushEvent(item) ==
    [kind |-> "push", key |-> item.key, account |-> item.account, result |-> "running"]

NoItem == [key |-> Sentinel, account |-> NoAccount]

\* spawn_oracle: the Subscriber task is spawned whatever
\* config.subscriber_enabled says; the flag is read nowhere.
SpawnSubscriber(enabled) == "start_shadow"

\* No notification marked, none in flight.
NoTrace ==
    [on |-> FALSE, given |-> 0, sub |-> 0, q |-> <<>>, ev |-> 0,
     accepted |-> {}, seen |-> <<>>]

\* spawn_oracle: the state after the two tasks are spawned, whatever the
\* capacity of the updates channel.
Boot ==
    /\ mapping_account_key \in RootKeys
    /\ ledger \in Ledgers
    /\ mapping_account_key = Sentinel => ledger = LedgerSmall
    /\ subscriber_enabled \in BOOLEAN
    /\ ~subscriber_enabled => ledger = LedgerSmall
    /\ data = EmptyData
    /\ oracle_pc = "idle"
    /\ accounts = EmptyMap
    /\ account_key = Sentinel
    /\ trav = <<>>
    /\ products_left = <<>>
    /\ product_accounts = EmptyMap
    /\ product_account = NoAccount
    /\ price_account_key = Sentinel
    /\ walk = {}
    /\ prices_left = <<>>
    /\ price_accounts = EmptyMap
    /\ to_send = <<>>
    /\ ev = NoEvent
    /\ pre = EmptyData
    /\ sent = <<>>
    /\ latest = EmptyMap
    /\ updates_q = <<>>
    /\ global_q = <<>>
    /\ global_open = TRUE
    /\ sub_pc = SpawnSubscriber(subscriber_enabled)
    /\ sub_item = NoItem
    /\ sub_result = "ok"
    /\ feed = "none"
    /\ dash_pc = "idle"
    /\ requests = <<>>
    /\ replies = NoReplies
    /\ local_data = EmptyMap
    /\ global_data = EmptyAllAccountsData
    /\ global_metadata = EmptyAllAccountsMetadata
    /\ keys_left = <<>>
    /\ all_price_keys_dedup = {}
    /\ remaining_product_keys = {}
    /\ ret = EmptyMap
    /\ warnings = NoWarnings
    /\ render_result = NoResult

Init ==
    /\ Boot
    /\ updates_channel_capacity = UpdatesCap
    /\ trace = NoTrace

\* ------------------------------------------------------ remote reads
\* A fetch whose error is swallowed.
SwallowedErrors(k, kind) == {"ok"}

\* rpc_client.get_account_data(key) followed by load_<kind>_account: the
\* errors the pair can return. A read can always fail (RemoteReadFailure);
\* bytes of another account type fail to decode.
FetchErrors(k, kind) ==
    {"rpc"} \cup (IF ledger[k].kind \notin {kind, "none"} THEN {"decode"} ELSE {})

FetchOk(k, kind) == ledger[k].kind = kind

\* load_mapping_account
MappingAccount(k) == [next |-> ledger[k].next, products |-> ledger[k].products]

\* load_price_account of the bytes read for k
PriceAccount(k) == [next |-> ledger[k].next, val |-> ledger[k].val]

\* global::Update::ProductAccountUpdate / PriceAccountUpdate
ProductAccountUpdate(k, a) == [type |-> "product", account_key |-> k, account |-> a]
PriceAccountUpdate(k, a) == [type |-> "price", account_key |-> k, account |-> a]


\* ------------------------------------------------------------ Oracle::run
\* A run that returns on the first error.
RunExitsOnError(result) == IF result = "ok" THEN "idle" ELSE "exited"

\* Oracle::run: the error of handle_next is logged and the loop goes on.
Run(result) == "idle"

ResetLocals ==
    /\ accounts' = EmptyMap
    /\ account_key' = Sentinel
    /\ trav' = <<>>
    /\ products_left' = <<>>
    /\ product_accounts' = EmptyMap
    /\ product_account' = NoAccount
    /\ price_account_key' = Sentinel
    /\ walk' = {}
    /\ prices_left' = <<>>
    /\ price_accounts' = EmptyMap
    /\ to_send' = <<>>

\* handle_next returns `result` to run.
Return(result) ==
    /\ oracle_pc' = Run(result)
    /\ ev' = [ev EXCEPT !.result = result]
    /\ ResetLocals

\* A `?` in poll: the error leaves poll and handle_next at once.
Abort(result) ==
    /\ Return(result)
    /\ UNCHANGED <<cfgVars, dashVars, trace, ledger, data, pre, sent, latest, updates_q,
                   global_q, global_open, subVars>>

\* A select! whose branches could be taken in the middle of an event.
SelectAlways == TRUE

\* tokio::select! in handle_next polls its two branches only when run calls
\* handle_next, that is between two events.
SelectIdle == oracle_pc = "idle"

\* spawn_oracle moves updates_tx into the Subscriber, and the Subscriber into
\* its task: when Subscriber::run returns, the one sender is dropped and the
\* updates channel is closed.
UpdatesClosed == sub_pc = "done"

\* A select! that gives up its tick branch once the recv branch is disabled.
TickUntilClosed(q, closed) == ~(closed /\ q = <<>>)

\* The poll_interval.tick() branch of select!: on a closed and empty channel
\* recv() returns None, the pattern Some(..) does not match, that branch is
\* disabled and select! goes on waiting for the tick.
TickBranch(q, closed) == TRUE

\* The updates_rx.recv() branch of select!: it completes when recv() returns
\* Some(..), that is when the channel holds an item, closed or not.
RecvBranch(q, closed) == q # <<>>

\* ----------------------------------------------------------- Oracle::poll
\* The poll_interval branch of select!: poll begins with
\* fetch_mapping_accounts(config.mapping_account_key).
PollTick ==
    /\ SelectIdle
    /\ TickBranch(updates_q, UpdatesClosed)
    /\ oracle_pc' = "fetch_mapping_accounts"
    /\ accounts' = EmptyMap
    /\ account_key' = mapping_account_key
    /\ trav' = <<>>
    /\ ev' = PollEvent
    /\ pre' = data
    /\ sent' = <<>>
    /\ latest' = latest
    /\ trace' = [trace EXCEPT !.ev = 0]
    /\ UNCHANGED <<cfgVars, dashVars, ledger, data, products_left, product_accounts,
                   product_account, price_account_key, walk, prices_left,
                   price_accounts, to_send, updates_q, global_q, global_open,
                   subVars>>

\* A loop that does not advance its key.
NextKeyStuck(account, key) == key

\* account_key = account.next; price_account_key = price_account.next
NextKey(account, key) == account.next

\* One turn of the while loop of fetch_mapping_accounts.
FetchMappingAccount ==
    /\ oracle_pc = "fetch_mapping_accounts"
    /\ account_key # Sentinel
    /\ Len(trav) < MaxTrav
    /\ FetchOk(account_key, "mapping")
    /\ LET account == MappingAccount(account_key) IN
        /\ accounts' = Insert(accounts, account_key, account)
        /\ account_key' = NextKey(account, account_key)
    /\ trav' = Append(trav, account_key)
    /\ UNCHANGED <<cfgVars, dashVars, trace, ledger, data, oracle_pc, products_left,
                   product_accounts, product_account, price_account_key, walk,
                   prices_left, price_accounts, to_send, evVars, updates_q,
                   global_q, global_open, subVars>>

FetchMappingAccountFail ==
    /\ oracle_pc = "fetch_mapping_accounts"
    /\ account_key # Sentinel
    /\ Len(trav) < MaxTrav
    /\ \E err \in FetchErrors(account_key, "mapping") : Abort(err)

\* The product keys fetch_product_accounts visits, in order: the mapping
\* accounts in some HashMap order, the products of each in array order.
ProductVisits(maps) ==
    {Concat([i \in DOMAIN o |-> maps[o[i]].products]) : o \in Orderings(DOMAIN maps)}

\* fetch_mapping_accounts returns; poll assigns data.mapping_accounts and
\* calls fetch_product_accounts.
FetchMappingAccountsDone ==
    /\ oracle_pc = "fetch_mapping_accounts"
    /\ account_key = Sentinel
    /\ data' = [data EXCEPT !.mapping_accounts = accounts]
    /\ oracle_pc' = "fetch_product_accounts"
    /\ products_left' \in ProductVisits(accounts)
    /\ product_accounts' = EmptyMap
    /\ accounts' = EmptyMap
    /\ trav' = <<>>
    /\ UNCHANGED <<cfgVars, dashVars, trace, ledger, account_key, product_account,
                   price_account_key, walk, prices_left, price_accounts,
                   to_send, evVars, updates_q, global_q, global_open, subVars>>

\* fetch_product_account: the product account is read and decoded.
FetchProductAccount ==
    /\ oracle_pc = "fetch_product_accounts"
    /\ products_left # <<>>
    /\ FetchOk(Head(products_left), "product")
    /\ product_account' = ledger[Head(products_left)]
    /\ price_account_key' = ledger[Head(products_left)].px_acc
    /\ walk' = {}
    /\ oracle_pc' = "fetch_product_account"
    /\ UNCHANGED <<cfgVars, dashVars, trace, ledger, data, accounts, account_key, trav,
                   products_left, product_accounts, prices_left,
                   price_accounts, to_send, evVars, updates_q, global_q,
                   global_open, subVars>>

FetchProductAccountFail ==
    /\ oracle_pc = "fetch_product_accounts"
    /\ products_left # <<>>
    /\ \E err \in FetchErrors(Head(products_left), "product") : Abort(err)

\* One turn of the while loop of fetch_product_account: the price account
\* is fetched and its key recorded.
WalkPriceAccount ==
    /\ oracle_pc = "fetch_product_account"
    /\ price_account_key # Sentinel
    /\ FetchOk(price_account_key, "price")
    /\ walk' = walk \cup {price_account_key}
    /\ price_account_key' = NextKey(ledger[price_account_key], price_account_key)
    /\ UNCHANGED <<cfgVars, dashVars, trace, ledger, data, oracle_pc, accounts,
                   account_key, trav, products_left, product_accounts,
                   product_account, prices_left, price_accounts, to_send,
                   evVars, updates_q, global_q, global_open, subVars>>

WalkPriceAccountFail ==
    /\ oracle_pc = "fetch_product_account"
    /\ price_account_key # Sentinel
    /\ \E err \in FetchErrors(price_account_key, "price") : Abort(err)

\* A product account that lists only the head of its price chain.
OnlyFirstPrice(account, keys) ==
    [px_acc |-> account.px_acc, price_accounts |-> keys \cap {account.px_acc}]

\* ProductAccount { account_data, price_accounts: price_accounts.keys() }
NewProductAccount(account, keys) ==
    [px_acc |-> account.px_acc, price_accounts |-> keys]

\* fetch_product_account returns; the product is inserted.
FetchProductAccountDone ==
    /\ oracle_pc = "fetch_product_account"
    /\ price_account_key = Sentinel
    /\ product_accounts' =
         Insert(product_accounts, Head(products_left),
                NewProductAccount(product_account, walk))
    /\ products_left' = Tail(products_left)
    /\ product_account' = NoAccount
    /\ walk' = {}
    /\ oracle_pc' = "fetch_product_accounts"
    /\ UNCHANGED <<cfgVars, dashVars, trace, ledger, data, accounts, account_key, trav,
                   price_account_key, prices_left, price_accounts, to_send,
                   evVars, updates_q, global_q, global_open, subVars>>

\* The price keys fetch_price_accounts visits, in order: the products in
\* some HashMap order, the price_accounts Vec of each in its order.
PriceVisits(prods) ==
    LET vecs ==
            {f \in [DOMAIN prods ->
                      UNION {Orderings(prods[p].price_accounts) : p \in DOMAIN prods}] :
                \A p \in DOMAIN prods : f[p] \in Orderings(prods[p].price_accounts)}
    IN  {Concat([i \in DOMAIN o |-> f[o[i]]]) :
            o \in Orderings(DOMAIN prods), f \in vecs}

\* fetch_product_accounts returns; poll assigns data.product_accounts and
\* calls fetch_price_accounts.
FetchProductAccountsDone ==
    /\ oracle_pc = "fetch_product_accounts"
    /\ products_left = <<>>
    /\ data' = [data EXCEPT !.product_accounts = product_accounts]
    /\ oracle_pc' = "fetch_price_accounts"
    /\ prices_left' \in PriceVisits(product_accounts)
    /\ price_accounts' = EmptyMap
    /\ product_accounts' = EmptyMap
    /\ UNCHANGED <<cfgVars, dashVars, trace, ledger, accounts, account_key, trav,
                   products_left, product_account, price_account_key, walk,
                   to_send, evVars, updates_q, global_q, global_open, subVars>>

\* One turn of the loops of fetch_price_accounts.
FetchPriceAccount ==
    /\ oracle_pc = "fetch_price_accounts"
    /\ prices_left # <<>>
    /\ FetchOk(Head(prices_left), "price")
    /\ price_accounts' =
         Insert(price_accounts, Head(prices_left), PriceAccount(Head(prices_left)))
    /\ prices_left' = Tail(prices_left)
    /\ UNCHANGED <<cfgVars, dashVars, trace, ledger, data, oracle_pc, accounts,
                   account_key, trav, products_left, product_accounts,
                   product_account, price_account_key, walk, to_send, evVars,
                   updates_q, global_q, global_open, subVars>>

FetchPriceAccountFail ==
    /\ oracle_pc = "fetch_price_accounts"
    /\ prices_left # <<>>
    /\ \E err \in FetchErrors(Head(prices_left), "price") : Abort(err)

\* A send_all_data_to_global_store with its two loops swapped.
PricesFirst(d) ==
    {[i \in DOMAIN pr |-> PriceAccountUpdate(pr[i], d.price_accounts[pr[i]])]
       \o [i \in DOMAIN po |-> ProductAccountUpdate(po[i], d.product_accounts[po[i]])] :
        po \in Orderings(DOMAIN d.product_accounts),
        pr \in Orderings(DOMAIN d.price_accounts)}

\* A send_all_data_to_global_store without its second loop.
ProductsOnly(d) ==
    {[i \in DOMAIN o |-> ProductAccountUpdate(o[i], d.product_accounts[o[i]])] :
        o \in Orderings(DOMAIN d.product_accounts)}

\* The updates send_all_data_to_global_store sends, in order: every product
\* account, then every price account, each map in some HashMap order.
AllUpdates(d) ==
    {[i \in DOMAIN po |-> ProductAccountUpdate(po[i], d.product_accounts[po[i]])]
       \o [i \in DOMAIN pr |-> PriceAccountUpdate(pr[i], d.price_accounts[pr[i]])] :
        po \in Orderings(DOMAIN d.product_accounts),
        pr \in Orderings(DOMAIN d.price_accounts)}

\* fetch_price_accounts returns; poll assigns data.price_accounts and calls
\* send_all_data_to_global_store, which returns at once when there is
\* nothing to send.
FetchPriceAccountsDone ==
    /\ oracle_pc = "fetch_price_accounts"
    /\ prices_left = <<>>
    /\ data' = [data EXCEPT !.price_accounts = price_accounts]
    /\ \E us \in AllUpdates(data') :
         IF us = <<>>
         THEN Return("ok")
         ELSE /\ oracle_pc' = "notify"
              /\ to_send' = us
              /\ price_accounts' = EmptyMap
              /\ UNCHANGED <<accounts, account_key, trav, products_left,
                             product_accounts, product_account,
                             price_account_key, walk, prices_left, ev>>
    /\ UNCHANGED <<cfgVars, dashVars, trace, ledger, pre, sent, latest, updates_q, global_q,
                   global_open, subVars>>

\* ------------------------------------------------- the global store channel
\* A send that completes on a full channel.
CanOverfill(q, cap) == Len(q) <= cap

\* mpsc::Sender::send completes when the channel has room.
CanSend(q, cap) == Len(q) < cap

\* The record of the last PriceAccountUpdate sent for each key, after u is
\* sent.
Latest(m, u) ==
    IF u.type = "price" THEN Insert(m, u.account_key, u.account) ELSE m

\* notify_product_account_update / notify_price_account_update: the send
\* completes; the caller goes on to its next update or returns Ok.
Notify ==
    /\ oracle_pc = "notify"
    /\ global_open
    /\ CanSend(global_q, GlobalCap)
    /\ global_q' = Append(global_q, Head(to_send))
    /\ sent' = Append(sent, Head(to_send))
    /\ latest' = Latest(latest, Head(to_send))
    /\ trace' = IF ev.kind = "push" /\ trace.ev # 0
                THEN [trace EXCEPT !.seen = Append(@, trace.ev)]
                ELSE trace
    /\ IF Tail(to_send) = <<>>
       THEN Return("ok")
       ELSE /\ to_send' = Tail(to_send)
            /\ UNCHANGED <<oracle_pc, ev, pollVars>>
    /\ UNCHANGED <<cfgVars, dashVars, ledger, data, pre, updates_q, global_open,
                   subVars>>

\* The send fails: the receiver is gone.
NotifyFail ==
    /\ oracle_pc = "notify"
    /\ ~global_open
    /\ Abort("send")

\* ------------------------------------------- Oracle::handle_account_update
\* A check that lets every key through.
AnyKey(d, k) == TRUE

\* self.data.price_accounts.contains_key(account_key)
ContainsKey(d, k) == k \in DOMAIN d.price_accounts

\* A load_price_account without its header check.
LoadsAnyBytes(account) == TRUE

\* load_price_account(&account.data)
LoadPriceAccountOk(account) == account.kind = "price"

LoadPriceAccount(account) == [next |-> account.next, val |-> account.val]

\* A receive that hands out the newest item of the channel.
RecvNewest(q) == [item |-> q[Len(q)], rest |-> SubSeq(q, 1, Len(q) - 1)]

\* updates_rx.recv() on a channel that holds an item: the oldest item, and
\* the channel without it.
Recv(q) == [item |-> Head(q), rest |-> Tail(q)]

\* The updates_rx branch of select!: handle_account_update, and
\* handle_price_account_update up to its send.
HandleAccountUpdate ==
    /\ SelectIdle
    /\ RecvBranch(updates_q, UpdatesClosed)
    /\ updates_q' = Recv(updates_q).rest
    /\ pre' = data
    /\ sent' = <<>>
    /\ latest' = latest
    /\ LET item == Recv(updates_q).item
           mark == Recv(trace.q).item
       IN
         IF ~ContainsKey(data, item.key)
         THEN /\ oracle_pc' = Run("ok")
              /\ ev' = [PushEvent(item) EXCEPT !.result = "ok"]
              /\ trace' = [trace EXCEPT !.q = Recv(trace.q).rest, !.ev = mark]
              /\ UNCHANGED <<data, to_send>>
         ELSE IF ~LoadPriceAccountOk(item.account)
         THEN /\ oracle_pc' = Run("decode")
              /\ ev' = [PushEvent(item) EXCEPT !.result = "decode"]
              /\ trace' = [trace EXCEPT !.q = Recv(trace.q).rest, !.ev = mark]
              /\ UNCHANGED <<data, to_send>>
         ELSE /\ data' = [data EXCEPT !.price_accounts =
                            Insert(@, item.key, LoadPriceAccount(item.account))]
              /\ to_send' =
                   <<PriceAccountUpdate(item.key, LoadPriceAccount(item.account))>>
              /\ oracle_pc' = "notify"
              /\ ev' = PushEvent(item)
              /\ trace' = [trace EXCEPT !.q = Recv(trace.q).rest, !.ev = mark,
                                        !.accepted = @ \cup ({mark} \ {0})]
    /\ UNCHANGED <<cfgVars, dashVars, ledger, pollVars, global_q, global_open,
                   subVars>>


\* --------------------------------------------------------------- Subscriber
\* A run that enters forward_updates whatever start_shadow returned.
RunForwardsAnyway(ok) == "recv"

\* Subscriber::run: forward_updates on Ok, log and return on Err.
SubscriberRun(ok) == IF ok THEN "recv" ELSE "done"

\* start_shadow returns Ok or Err.
StartShadow ==
    /\ sub_pc = "start_shadow"
    /\ \E ok \in BOOLEAN :
         /\ feed' = (IF ok THEN "open" ELSE "failed")
         /\ sub_pc' = SubscriberRun(ok)
    /\ UNCHANGED <<cfgVars, dashVars, trace, ledger, data, oracle_pc, pollVars, to_send,
                   evVars, updates_q, global_q, global_open, sub_item,
                   sub_result>>

\* A forward_updates that breaks out of its loop on an error.
ForwardExitsOnError(result) == IF result = "ok" THEN "recv" ELSE "done"

\* forward_updates: whatever forward_update returned, the loop calls it again.
ForwardUpdates(result) == "recv"

\* What the feed may report for the accounts of the ledger: a price account
\* with a new aggregate price, or bytes that are no price account.
FeedItems ==
    {[key |-> k, account |-> [ledger[k] EXCEPT !.val = @ + 1]] :
        k \in {x \in FeedKeys : ledger[x].kind = "price"}}
    \cup {[key |-> k, account |-> Garbage] :
            k \in {x \in FeedKeys : ledger[x].kind = "price"}}

\* The marks the next notification may get: none, or the next of the two
\* when the history is kept.
NextMarks(t) == IF t.on /\ t.given < 2 THEN {0, t.given + 1} ELSE {0}

\* forward_update: shadow_rx.recv() returns an item.
ForwardRecv ==
    /\ sub_pc = "recv"
    /\ feed = "open"
    /\ \E item \in FeedItems : sub_item' = item
    /\ \E mark \in NextMarks(trace) :
         trace' = [trace EXCEPT !.sub = mark,
                                !.given = IF mark = 0 THEN @ ELSE mark]
    /\ sub_pc' = "send"
    /\ UNCHANGED <<cfgVars, dashVars, ledger, data, oracle_pc, pollVars, to_send,
                   evVars, updates_q, global_q, global_open, sub_result,
                   feed>>

\* forward_update: shadow_rx.recv() returns Err (the receiver lagged, or the
\* feed is closed); forward_update returns it.
ForwardRecvFail ==
    /\ sub_pc = "recv"
    /\ sub_result' = "err"
    /\ sub_pc' = ForwardUpdates("err")
    /\ UNCHANGED <<cfgVars, dashVars, trace, ledger, data, oracle_pc, pollVars, to_send,
                   evVars, updates_q, global_q, global_open, sub_item,
                   feed>>

\* forward_update: updates_tx.send completes. The Oracle owns updates_rx and
\* never returns from run, so this send cannot find the channel closed.
ForwardSend ==
    /\ sub_pc = "send"
    /\ CanSend(updates_q, updates_channel_capacity)
    /\ updates_q' = Append(updates_q, sub_item)
    /\ trace' = [trace EXCEPT !.q = Append(@, trace.sub), !.sub = 0]
    /\ sub_item' = NoItem
    /\ sub_result' = "ok"
    /\ sub_pc' = ForwardUpdates("ok")
    /\ UNCHANGED <<cfgVars, dashVars, ledger, data, oracle_pc, pollVars, to_send,
                   evVars, global_q, global_open, feed>>

\* -------------------------------------------------------------- environment
\* The change feed closes (its sender is dropped).
FeedClose ==
    /\ feed = "open"
    /\ feed' = "closed"
    /\ UNCHANGED <<cfgVars, dashVars, trace, ledger, data, oracle_pc, pollVars, to_send,
                   evVars, updates_q, global_q, global_open, sub_pc, sub_item,
                   sub_result>>

\* The global store receives the oldest update.
StoreRecv ==
    /\ global_open
    /\ global_q # <<>>
    /\ global_q' = Tail(global_q)
    /\ UNCHANGED <<cfgVars, dashVars, trace, ledger, data, oracle_pc, pollVars, to_send,
                   evVars, updates_q, global_open, subVars>>

\* The global store drops its receiver; what the channel held goes with it,
\* and so does the record of what was sent to it.
StoreDrop ==
    /\ global_open
    /\ global_open' = FALSE
    /\ global_q' = <<>>
    /\ latest' = EmptyMap
    /\ UNCHANGED <<cfgVars, dashVars, trace, ledger, data, oracle_pc, pollVars, to_send,
                   ev, pre, sent, updates_q, subVars>>

\* The accounts of the ledger change between two poll cycles: the second
\* product and its price account are removed from the mapping account.
LedgerChange ==
    /\ oracle_pc = "idle"
    /\ ledger = LedgerFlat
    /\ ledger' = LedgerSmall
    /\ UNCHANGED <<cfgVars, dashVars, trace, data, oracle_pc, pollVars, to_send, evVars,
                   updates_q, global_q, global_open, subVars>>

Next ==
    \/ PollTick
    \/ FetchMappingAccount
    \/ FetchMappingAccountFail
    \/ FetchMappingAccountsDone
    \/ FetchProductAccount
    \/ FetchProductAccountFail
    \/ WalkPriceAccount
    \/ WalkPriceAccountFail
    \/ FetchProductAccountDone
    \/ FetchProductAccountsDone
    \/ FetchPriceAccount
    \/ FetchPriceAccountFail
    \/ FetchPriceAccountsDone
    \/ Notify
    \/ NotifyFail
    \/ HandleAccountUpdate
    \/ StartShadow
    \/ ForwardRecv
    \/ ForwardRecvFail
    \/ ForwardSend
    \/ FeedClose
    \/ StoreRecv
    \/ StoreDrop
    \/ LedgerChange

Spec == Init /\ [][Next]_vars

\* The agent under a poll interval that keeps ticking: a select! that waits
\* with its tick branch enabled is left through that branch or another.
TickSpec == Spec /\ WF_vars(PollTick)

\* The agent started with a push channel of two slots, over the ledgers on
\* which a push notification can be accepted, with the history of two
\* notifications kept.
OrderInit ==
    /\ Boot
    /\ mapping_account_key = 1
    /\ subscriber_enabled
    /\ ledger \in OrderLedgers
    /\ updates_channel_capacity = UpdatesCap + 1
    /\ trace = [NoTrace EXCEPT !.on = TRUE]

\* The steps of the two tasks while the feed stays open, the global store
\* keeps its receiver and the accounts of the ledger stay as they are.
OrderNext ==
    \/ PollTick
    \/ FetchMappingAccount
    \/ FetchMappingAccountFail
    \/ FetchMappingAccountsDone
    \/ FetchProductAccount
    \/ FetchProductAccountFail
    \/ WalkPriceAccount
    \/ WalkPriceAccountFail
    \/ FetchProductAccountDone
    \/ FetchProductAccountsDone
    \/ FetchPriceAccount
    \/ FetchPriceAccountFail
    \/ FetchPriceAccountsDone
    \/ Notify
    \/ HandleAccountUpdate
    \/ StartShadow
    \/ ForwardRecv
    \/ ForwardRecvFail
    \/ ForwardSend
    \/ StoreRecv

OrderSpec == OrderInit /\ [][OrderNext]_vars


\* ========================================================== the dashboard
\* A reply the `?`s of render_dashboard let through when only the receive
\* itself is checked.
OuterOk(reply) == reply.kind # "closed"

\* `.await?` on the local reply, `.await??` on the two global replies: the
\* value is taken only from a reply that arrived and holds no Err.
ReplyOk(reply) == reply.kind = "ok"

RenderError == [kind |-> "err", rows |-> {}]

TheReply(source) == CHOOSE reply \in replies[source] : TRUE

\* The locals of build_dashboard_data.
Locals ==
    [local_data |-> local_data,
     global_data |-> global_data,
     global_metadata |-> global_metadata,
     all_price_keys_dedup |-> all_price_keys_dedup,
     remaining_product_keys |-> remaining_product_keys,
     ret |-> ret,
     warnings |-> warnings]

SetLocals(b) ==
    /\ local_data' = b.local_data
    /\ global_data' = b.global_data
    /\ global_metadata' = b.global_metadata
    /\ all_price_keys_dedup' = b.all_price_keys_dedup
    /\ remaining_product_keys' = b.remaining_product_keys
    /\ ret' = b.ret
    /\ warnings' = b.warnings

\* render_dashboard is called: the three oneshot channels are created.
RenderDashboard ==
    /\ dash_pc \in {"idle", "done"}
    /\ dash_pc' = "send_local"
    /\ requests' = <<>>
    /\ replies' = NoReplies
    /\ SetLocals(BuildLocals(EmptyMap, EmptyAllAccountsData,
                             EmptyAllAccountsMetadata))
    /\ keys_left' = <<>>
    /\ render_result' = NoResult
    /\ UNCHANGED oracleVars

\* store_tx.send(lookup).await?: the lookup is sent, or the store has dropped
\* its receiver and render_dashboard returns the error.
SendLookup(lookup, next) ==
    /\ \E ok \in BOOLEAN :
         IF ok
         THEN /\ requests' = Append(requests, lookup)
              /\ dash_pc' = next
              /\ render_result' = render_result
         ELSE /\ requests' = requests
              /\ dash_pc' = "done"
              /\ render_result' = RenderError
    /\ UNCHANGED <<oracleVars, replies, buildVars>>

SendLookupAllPriceInfo ==
    /\ dash_pc = "send_local"
    /\ SendLookup("LookupAllPriceInfo", "send_data")

SendLookupAllAccountsData ==
    /\ dash_pc = "send_data"
    /\ SendLookup("LookupAllAccountsData", "send_metadata")

SendLookupAllAccountsMetadata ==
    /\ dash_pc = "send_metadata"
    /\ SendLookup("LookupAllAccountsMetadata", "await_local")

\* rx.await: the reply arrives; render_dashboard goes on with its value or
\* returns the error.
AwaitReply(source, Replies, next) ==
    /\ \E reply \in Replies :
         /\ replies' = [replies EXCEPT ![source] = {reply}]
         /\ IF ReplyOk(reply)
            THEN dash_pc' = next /\ render_result' = render_result
            ELSE dash_pc' = "done" /\ render_result' = RenderError
    /\ UNCHANGED <<oracleVars, requests, buildVars>>

AwaitLocal ==
    /\ dash_pc = "await_local"
    /\ AwaitReply("local", LocalReplies, "await_data")

AwaitGlobalData ==
    /\ dash_pc = "await_data"
    /\ AwaitReply("data", DataReplies, "await_metadata")

AwaitGlobalMetadata ==
    /\ dash_pc = "await_metadata"
    /\ AwaitReply("metadata", MetadataReplies, "build")

\* build_dashboard_data is called with the three values: the key sets are
\* collected; the HashSet of product keys will iterate in some order.
BuildBegin ==
    /\ dash_pc = "build"
    /\ LET b == BuildLocals(TheReply("local").value, TheReply("data").value,
                            TheReply("metadata").value)
       IN  /\ SetLocals(b)
           /\ keys_left' \in Orderings(b.remaining_product_keys)
    /\ dash_pc' = "loop"
    /\ UNCHANGED <<oracleVars, requests, replies, render_result>>

\* One iteration of the loop over all_product_keys_dedup.
BuildProduct ==
    /\ dash_pc = "loop"
    /\ keys_left # <<>>
    /\ SetLocals(ProcessProduct(Locals, Head(keys_left)))
    /\ keys_left' = Tail(keys_left)
    /\ UNCHANGED <<oracleVars, dash_pc, requests, replies, render_result>>

\* The loop is over: the orphan warning, the return of ret, and the rows
\* render_dashboard builds from it.
BuildReturn ==
    /\ dash_pc = "loop"
    /\ keys_left = <<>>
    /\ warnings' = [warnings EXCEPT !.orphaned = OrphanWarning(Locals)]
    /\ render_result' = [kind |-> "ok", rows |-> Rows(ret)]
    /\ dash_pc' = "done"
    /\ UNCHANGED <<oracleVars, requests, replies, local_data, global_data,
                   global_metadata, keys_left, all_price_keys_dedup,
                   remaining_product_keys, ret>>

DashNext ==
    \/ RenderDashboard
    \/ SendLookupAllPriceInfo
    \/ SendLookupAllAccountsData
    \/ SendLookupAllAccountsMetadata
    \/ AwaitLocal
    \/ AwaitGlobalData
    \/ AwaitGlobalMetadata
    \/ BuildBegin
    \/ BuildProduct
    \/ BuildReturn

\* The dashboard next to an Oracle that is configured and at rest.
DashInit == Init /\ mapping_account_key = Sentinel /\ subscriber_enabled

DashSpec == DashInit /\ [][DashNext]_vars



\* ================================================================= claims
Errors == {"rpc", "decode", "send"}

\* The last handle_next was a push notification and has returned.
PushHandled == oracle_pc = "idle" /\ ev.kind = "push"

\* The last handle_next was a poll cycle and has returned `result`.
PollReturned(results) ==
    oracle_pc = "idle" /\ ev.kind = "poll" /\ ev.result \in results

KnownKey == ev.key \in DOMAIN pre.price_accounts

\* The graph with the price entry of the notification replaced.
Patched ==
    [pre EXCEPT !.price_accounts = Insert(@, ev.key, LoadPriceAccount(ev.account))]

\* The notification was applied: entry replaced, one update forwarded.
Applied ==
    /\ LoadPriceAccountOk(ev.account)
    /\ data = Patched
    /\ sent = <<PriceAccountUpdate(ev.key, LoadPriceAccount(ev.account))>>

Untouched == data = pre /\ sent = <<>>

\* C1 as stated: a push notification is applied if and only if its key was
\* in the price-account map before; otherwise the graph is unchanged and
\* nothing is forwarded.
C1_AppliedIffKnown ==
    PushHandled => (Applied <=> KnownKey) /\ (~Applied => Untouched)

\* C1 amended: a push notification is applied if and only if its key was in
\* the price-account map before, its bytes decode as a price account and the
\* send to the global store succeeds. For an unknown key or undecodable
\* bytes the graph is unchanged and nothing is forwarded; when only the send
\* fails the entry is replaced and nothing is forwarded.
C1_AppliedIffKnownDecodedSent ==
    PushHandled =>
        /\ Applied <=> (KnownKey /\ LoadPriceAccountOk(ev.account) /\ ev.result = "ok")
        /\ (~KnownKey \/ ~LoadPriceAccountOk(ev.account)) => Untouched
        /\ (KnownKey /\ LoadPriceAccountOk(ev.account) /\ ev.result # "ok") =>
              data = Patched /\ sent = <<>> /\ ev.result = "send"
        /\ ~KnownKey => ev.result = "ok"
        /\ (KnownKey /\ ~LoadPriceAccountOk(ev.account)) => ev.result = "decode"

\* A notification for a known key has replaced the entry and was forwarded.
C1_Witness ==
    PushHandled /\ KnownKey /\ Applied /\ data # pre

\* C2: when a fetch or decode fails during a poll cycle, the three maps of
\* the graph are what they were before the cycle and nothing was forwarded.
C2_NoPartialGraph ==
    PollReturned({"rpc", "decode"}) => data = pre /\ sent = <<>>

\* The price keys reached from key k by following next in the price map;
\* a key that has no entry is reached and ends the walk.
RECURSIVE PriceChain(_, _, _)
PriceChain(prices, k, seen) ==
    IF k = Sentinel \/ k \in seen THEN seen
    ELSE IF k \notin DOMAIN prices THEN seen \cup {k}
    ELSE PriceChain(prices, prices[k].next, seen \cup {k})

ReachablePriceKeys(d) ==
    UNION {PriceChain(d.price_accounts, d.product_accounts[p].px_acc, {}) :
             p \in DOMAIN d.product_accounts}

\* The current poll cycle has rebuilt the three maps, or the last
\* handle_next was a poll cycle that did.
PollRebuilt ==
    /\ ev.kind = "poll"
    /\ \/ oracle_pc = "notify"
       \/ oracle_pc = "idle" /\ ev.result \in {"ok", "send"}

\* C3: after a poll cycle (once poll has assigned the three maps) the keys
\* of the price-account map are exactly the price keys reached by walking
\* the price chains of the product accounts of the product map.
C3_PriceKeysAreReachable ==
    PollRebuilt => DOMAIN data.price_accounts = ReachablePriceKeys(data)

\* A poll cycle has dropped a key that is no longer reachable, and a poll
\* cycle has walked a chain of two price accounts.
C3_Witness ==
    /\ PollReturned({"ok"})
    /\ \/ (DOMAIN pre.price_accounts) \ (DOMAIN data.price_accounts) # {}
       \/ \E p \in DOMAIN data.product_accounts :
             Cardinality(data.product_accounts[p].price_accounts) = 2

Count(seq, type) == Cardinality({i \in DOMAIN seq : seq[i].type = type})

\* C4: after a poll cycle the updates forwarded are one ProductAccountUpdate
\* per product account and one PriceAccountUpdate per price account of the
\* rebuilt maps, none skipped, none sent twice.
C4_OneUpdatePerAccount ==
    PollReturned({"ok"}) =>
        /\ Count(sent, "product") = Cardinality(DOMAIN data.product_accounts)
        /\ Count(sent, "price") = Cardinality(DOMAIN data.price_accounts)
        /\ \A k \in DOMAIN data.product_accounts :
              Cardinality({i \in DOMAIN sent :
                  sent[i] = ProductAccountUpdate(k, data.product_accounts[k])}) = 1
        /\ \A k \in DOMAIN data.price_accounts :
              Cardinality({i \in DOMAIN sent :
                  sent[i] = PriceAccountUpdate(k, data.price_accounts[k])}) = 1

\* A poll cycle has forwarded two product and two price accounts.
C4_Witness ==
    /\ PollReturned({"ok"})
    /\ Cardinality(DOMAIN data.product_accounts) = 2
    /\ Cardinality(DOMAIN data.price_accounts) = 2
    /\ Len(sent) = 4

NoDup(seq) == \A i, j \in DOMAIN seq : i # j => seq[i] # seq[j]

\* The mapping chain from key k runs into a key it has already passed.
RECURSIVE ChainRevisits(_, _)
ChainRevisits(k, seen) ==
    IF k = Sentinel THEN FALSE
    ELSE IF k \in seen THEN TRUE
    ELSE IF ledger[k].kind # "mapping" THEN FALSE
    ELSE ChainRevisits(ledger[k].next, seen \cup {k})

Traversing == oracle_pc = "fetch_mapping_accounts"

\* The key the traversal is at is the root before the first fetch and the
\* next key of the node fetched last after it.
TraversalCursor ==
    Traversing =>
        account_key =
            IF trav = <<>> THEN mapping_account_key
            ELSE ledger[trav[Len(trav)]].next

\* The traversal returns its accounts only at the sentinel key, with the
\* nodes it fetched, and fetches no node at the sentinel key.
TraversalStep ==
    Traversing =>
        /\ oracle_pc' = "fetch_product_accounts" =>
              /\ account_key = Sentinel
              /\ DOMAIN data'.mapping_accounts = {trav[i] : i \in DOMAIN trav}
        /\ (Traversing' /\ trav' # trav) =>
              /\ account_key # Sentinel
              /\ trav' = Append(trav, account_key)
        /\ account_key = Sentinel =>
              \/ oracle_pc' = "fetch_product_accounts"
              \/ UNCHANGED <<oracle_pc, trav, account_key>>

\* C5 as stated: the traversal ends after N fetches exactly when the N-th
\* node's next is the sentinel key, and fetches no key twice.
C5_TraversalNeverRevisits ==
    [](TraversalCursor /\ NoDup(trav)) /\ [][TraversalStep]_vars

\* C5 amended: the traversal ends after N fetches exactly when the N-th
\* node's next is the sentinel key; when the mapping chain from the root
\* key is acyclic it fetches no key twice.
C5_TraversalEndsAtSentinel ==
    /\ [](TraversalCursor
          /\ (~ChainRevisits(mapping_account_key, {}) => NoDup(trav)))
    /\ [][TraversalStep]_vars

\* A traversal of an acyclic chain is at the sentinel key after two fetches.
C5_Witness ==
    /\ Traversing
    /\ ~ChainRevisits(mapping_account_key, {})
    /\ Len(trav) = 2
    /\ account_key = Sentinel

\* C6: no error ends the main loop: after a failed read, decode or send the
\* Oracle waits for its next event, and the poll tick can be taken.
C6_RunNeverExits ==
    /\ oracle_pc # "exited"
    /\ ev.result \in Errors => (oracle_pc = "idle" /\ ENABLED PollTick)

\* The Oracle waits for its next event after each kind of error.
C6_Witness ==
    /\ oracle_pc = "idle"
    /\ ev.result = "send"
    /\ updates_q # <<>>

\* C7: events are handled one at a time. While an event is being handled no
\* notification is dequeued and no other event begins, and the price map
\* changes during a poll cycle only where poll assigns it; a step that
\* begins an event dequeues one notification or none.
C7_Step ==
    /\ oracle_pc # "idle" =>
          /\ IsPrefix(updates_q, updates_q')
          /\ ev' = [ev EXCEPT !.result = ev'.result]
          /\ pre' = pre
          /\ (ev.kind = "poll" /\ data'.price_accounts # data.price_accounts) =>
                oracle_pc = "fetch_price_accounts" /\ prices_left = <<>>
    /\ oracle_pc = "idle" =>
          \/ ev' = ev /\ IsPrefix(updates_q, updates_q')
          \/ ev'.kind = "poll" /\ updates_q' = updates_q
          \/ /\ ev'.kind = "push"
             /\ updates_q # <<>>
             /\ updates_q' = Tail(updates_q)
             /\ ev'.key = Head(updates_q).key

C7_Serialized == [][C7_Step]_vars

\* A notification waits in the channel while a poll cycle fetches.
C7_Witness ==
    /\ oracle_pc = "fetch_price_accounts"
    /\ updates_q # <<>>

\* C8: the channel to the global store never holds more than its capacity;
\* while its receiver lives its content changes only by one update appended
\* by a send that found room or by the oldest update received; a sender
\* that finds it full stays in its send with its update.
C8_Step ==
    /\ global_open' =>
          \/ global_q' = global_q
          \/ /\ Len(global_q) < GlobalCap
             /\ oracle_pc = "notify"
             /\ global_q' = Append(global_q, Head(to_send))
             /\ sent' = Append(sent, Head(to_send))
          \/ global_q # <<>> /\ global_q' = Tail(global_q)
    /\ (oracle_pc = "notify" /\ global_open' /\ Len(global_q) = GlobalCap) =>
          UNCHANGED <<oracle_pc, to_send, sent>>

C8_Backpressure == [](Len(global_q) <= GlobalCap) /\ [][C8_Step]_vars

\* A send is suspended on a full channel.
C8_Witness ==
    /\ oracle_pc = "notify"
    /\ global_open
    /\ Len(global_q) = GlobalCap

\* C9: once start_shadow has failed the Subscriber task is over: it never
\* subscribes again and puts nothing on the updates channel.
C9_Step ==
    feed = "failed" =>
        /\ feed' = "failed"
        /\ sub_pc' = "done"
        /\ updates_q' = <<>>

C9_NoResubscribe ==
    [](feed = "failed" => sub_pc = "done" /\ updates_q = <<>>) /\ [][C9_Step]_vars

\* The subscription has failed and the Oracle is polling.
C9_Witness ==
    /\ feed = "failed"
    /\ sub_pc = "done"
    /\ oracle_pc = "fetch_price_accounts"

\* C10: once subscribed the forward loop never exits: after a failed
\* forward_update it is at its next receive, and with the feed closed the
\* only thing a receive can do is fail again.
C10_Step ==
    /\ sub_pc \in {"recv", "send"} => sub_pc' \in {"recv", "send"}
    /\ (sub_result = "ok" /\ sub_result' = "err") => sub_pc' = "recv"

FetchStages ==
    {"fetch_product_accounts", "fetch_product_account", "fetch_price_accounts"}

\* The products the mapping accounts of d list, the prices its products list.
ListedProducts(d) ==
    UNION {{d.mapping_accounts[m].products[i] :
              i \in DOMAIN d.mapping_accounts[m].products} :
           m \in DOMAIN d.mapping_accounts}

ListedPrices(d) ==
    UNION {d.product_accounts[p].price_accounts : p \in DOMAIN d.product_accounts}

\* No step of the product or price stage ends the cycle with an error.
C16_StageStep ==
    oracle_pc \in FetchStages =>
        (oracle_pc' # "idle" \/ ev'.result \notin {"rpc", "decode"})

\* C16 as stated: a failure affecting a single product or price account does
\* not abort the poll cycle; no step of the product or price stage ends the
\* cycle with a fetch or decode error.
C16_AccountFailureDoesNotAbort == [][C16_StageStep]_vars

\* The step on which a fetch fails returns the error and does nothing else.
C16_FailStep ==
    (ev.kind = "poll" /\ ev.result = "running"
        /\ ev'.result \in {"rpc", "decode"}) =>
            /\ oracle_pc' = "idle"
            /\ data' = data
            /\ global_q' = global_q
            /\ to_send' = <<>>

\* C16 amended: a fetch or decode failure of any account (mapping, product
\* or price) aborts the poll cycle at once: the step that fails returns the
\* error, fetches no further account and forwards nothing, and the price
\* map is not replaced; a cycle returns Ok only after every listed product
\* and every listed price account was fetched.
C16_AnyFetchFailureAborts ==
    /\ [](PollReturned({"rpc", "decode"}) =>
            sent = <<>> /\ data.price_accounts = pre.price_accounts)
    /\ [](PollReturned({"ok"}) =>
            /\ DOMAIN data.product_accounts = ListedProducts(data)
            /\ ListedPrices(data) \subseteq DOMAIN data.price_accounts)
    /\ [][C16_FailStep]_vars

\* A poll cycle was aborted by a failure in the price stage, after the
\* product map was replaced.
C16_Witness ==
    /\ PollReturned({"rpc", "decode"})
    /\ data.product_accounts # pre.product_accounts

\* ---------------------------------------------------------------- C18
\* C18: with config.subscriber_enabled false no subscription is attempted,
\* nothing is queued for the Oracle and the Oracle handles no push
\* notification.
C18_DisabledMeansNoSubscriber ==
    ~subscriber_enabled =>
        feed = "none" /\ updates_q = <<>> /\ ev.kind # "push"

\* ---------------------------------------------------------------- C19
\* C19: handling a push notification leaves the mapping map and the product
\* map as they were and keeps the key set of the price map.
C19_PushKeepsKeys ==
    ev.kind = "push" =>
        /\ data.mapping_accounts = pre.mapping_accounts
        /\ data.product_accounts = pre.product_accounts
        /\ DOMAIN data.price_accounts = DOMAIN pre.price_accounts

\* A push notification replaced a price entry of a graph with products.
C19_Witness ==
    /\ PushHandled
    /\ data.price_accounts # pre.price_accounts
    /\ DOMAIN data.product_accounts # {}

\* ---------------------------------------------------------------- C20
\* C20: a push notification for a known price key whose bytes are no price
\* account returns a decode error, leaves the graph unchanged, forwards
\* nothing, and the Oracle is back in its loop, ready for the next event.
C20_UndecodablePushIgnored ==
    (ev.kind = "push" /\ ev.result # "running" /\ KnownKey
        /\ ev.account = Garbage) =>
            /\ data = pre
            /\ sent = <<>>
            /\ to_send = <<>>
            /\ ev.result = "decode"
            /\ oracle_pc = "idle"
            /\ ENABLED PollTick

\* A notification with undecodable bytes for a known key was handled.
C20_Witness ==
    /\ PushHandled /\ KnownKey
    /\ ev.account = Garbage
    /\ ev.result = "decode"


\* ===================================================== claims: dashboard
\* render_dashboard has returned a page.
Built == dash_pc = "done" /\ render_result.kind = "ok"

\* The three snapshots as the stores sent them.
OrigLocal == TheReply("local").value
OrigData == TheReply("data").value
OrigMetadata == TheReply("metadata").value
OrigProducts == DOMAIN OrigMetadata.product_accounts_metadata

\* The price keys the metadata of product p lists.
Listed(p) ==
    {OrigMetadata.product_accounts_metadata[p].price_accounts[i] :
        i \in DOMAIN OrigMetadata.product_accounts_metadata[p].price_accounts}

\* The products whose metadata lists price key k.
Listers(k) == {p \in OrigProducts : k \in Listed(p)}

Range(seq) == {seq[i] : i \in DOMAIN seq}

\* build_dashboard_data run to its end with the product keys iterated in
\* `order`.
RECURSIVE BuildFrom(_, _)
BuildFrom(b, order) ==
    IF order = <<>> THEN b
    ELSE BuildFrom(ProcessProduct(b, Head(order)), Tail(order))

ViewFor(order) ==
    BuildFrom(BuildLocals(OrigLocal, OrigData, OrigMetadata), order).ret

\* ---------------------------------------------------------------- C11
\* What two reports must share: the names, the product keys and the price
\* rows of each product.
Shape(view) ==
    [names |-> DOMAIN view,
     products |-> {view[n].product : n \in DOMAIN view},
     rows |-> {[product |-> view[n].product, prices |-> view[n].prices] :
                n \in DOMAIN view}]

\* C11: for the same three snapshots the report has the same names, the
\* same product keys and the same price rows whatever the order in which the
\* product keys are iterated.
C11_SameReportForEveryOrder ==
    Built => \A o \in Orderings(OrigProducts) : Shape(ViewFor(o)) = Shape(ret)

\* ---------------------------------------------------------------- C12
\* The display name of the product the loop is about to process.
CurrentName ==
    SymbolName(global_metadata.product_accounts_metadata[Head(keys_left)],
               Head(keys_left))

\* A product whose name the report already holds is stored under the name
\* with the suffix; the entry under the name stays as it was.
C12_Step ==
    (dash_pc = "loop" /\ keys_left # <<>> /\ CurrentName \in DOMAIN ret) =>
        /\ CurrentName \in DOMAIN ret'
        /\ ret'[CurrentName] = ret[CurrentName]
        /\ Duplicate(CurrentName) \in DOMAIN ret'
        /\ ret'[Duplicate(CurrentName)].product = Head(keys_left)

\* The symbol attribute of product p, as an Option.
SymbolOf(p) == Get(OrigMetadata.product_accounts_metadata[p].attr_dict, "symbol")

\* Two products, and no third, with the same symbol attribute are the
\* products of the entries named S and S (duplicate).
C12_TwoEntries ==
    Built =>
        \A p, q \in OrigProducts :
            (p # q /\ SymbolOf(p) # {} /\ SymbolOf(p) = SymbolOf(q)
                /\ \A r \in OrigProducts \ {p, q} : SymbolOf(r) # SymbolOf(p)) =>
                LET S == Str(CHOOSE t \in SymbolOf(p) : TRUE)
                IN  /\ {S, Duplicate(S)} \subseteq DOMAIN ret
                    /\ {ret[S].product, ret[Duplicate(S)].product} = {p, q}
                    /\ \A n \in DOMAIN ret :
                         n.text = S.text => n \in {S, Duplicate(S)}

\* C12: when the display name of a product is already in the report, the
\* product is stored under that name followed by " (duplicate)" and the
\* earlier entry keeps its name and content; two products with the same
\* symbol S yield the two entries S and S (duplicate).
C12_DuplicateRenamed == []C12_TwoEntries /\ [][C12_Step]_vars

\* Two products with the same symbol were built into two entries.
C12_Witness ==
    /\ Built
    /\ Cardinality(OrigProducts) = 2
    /\ Duplicate(Str("ETH/USD")) \in DOMAIN ret

\* ---------------------------------------------------------------- C13
\* C13: the report holds exactly one entry for every product of the
\* metadata snapshot: as many entries as products, and every product is the
\* product of an entry.
C13_NoProductLost ==
    Built =>
        /\ Cardinality(DOMAIN ret) = Cardinality(OrigProducts)
        /\ {ret[n].product : n \in DOMAIN ret} = OrigProducts


\* ---------------------------------------------------------------- C14
\* The row of price key k as the three snapshots alone decide it.
SourceView(k) ==
    [local_data |-> IF [bytes |-> k] \in DOMAIN OrigLocal
                    THEN {OrigLocal[[bytes |-> k]]} ELSE {},
     global_data |-> IF k \in DOMAIN OrigData.price_accounts
                     THEN {OrigData.price_accounts[k]} ELSE {},
     global_metadata |-> IF k \in DOMAIN OrigMetadata.price_accounts_metadata
                         THEN {OrigMetadata.price_accounts_metadata[k]} ELSE {}]

EmptyView == [local_data |-> {}, global_data |-> {}, global_metadata |-> {}]

\* C14 as stated: the rows of a product are the price keys its metadata
\* lists, and each field of a row is present exactly when its own source
\* holds the price key.
C14_FieldsFromOwnSource ==
    Built =>
        \A n \in DOMAIN ret :
            /\ DOMAIN ret[n].prices = Listed(ret[n].product)
            /\ \A k \in DOMAIN ret[n].prices : ret[n].prices[k] = SourceView(k)

\* The products the loop has processed before the one it is about to.
Earlier == OrigProducts \ Range(keys_left)

\* The product the loop processes gets the rows its metadata lists; a row
\* is what the sources hold for its key, or empty when an earlier product
\* lists the key.
C14_Step ==
    (dash_pc = "loop" /\ keys_left # <<>>) =>
        \E n \in DOMAIN ret' :
            /\ ret'[n].product = Head(keys_left)
            /\ DOMAIN ret'[n].prices = Listed(Head(keys_left))
            /\ \A k \in DOMAIN ret'[n].prices :
                 ret'[n].prices[k] =
                    IF \E q \in Earlier : k \in Listed(q)
                    THEN EmptyView ELSE SourceView(k)

\* In the report a row of a price key only one product lists is what the
\* sources hold; any other row is that or empty.
C14_Rows ==
    Built =>
        \A n \in DOMAIN ret :
            /\ DOMAIN ret[n].prices = Listed(ret[n].product)
            /\ \A k \in DOMAIN ret[n].prices :
                 /\ ret[n].prices[k] \in {SourceView(k), EmptyView}
                 /\ Listers(k) = {ret[n].product} =>
                        ret[n].prices[k] = SourceView(k)

\* C14 amended: the rows of a product are the price keys its metadata
\* lists; each field of a row is present exactly when its own source holds
\* the price key, unless a product processed earlier lists the same key, in
\* which case all three fields are absent.
C14_FieldsFromOwnSourceOnce == []C14_Rows /\ [][C14_Step]_vars

\* A row with its local field present and its confirmed field absent, next
\* to a row of a key the sources do not hold.
C14_Witness ==
    /\ Built
    /\ \E n \in DOMAIN ret : \E k \in DOMAIN ret[n].prices :
         /\ ret[n].prices[k].local_data # {}
         /\ ret[n].prices[k].global_data = {}
    /\ \E n \in DOMAIN ret : \E k \in DOMAIN ret[n].prices :
         ret[n].prices[k] = EmptyView

\* ---------------------------------------------------------------- C15
\* The price keys of the three snapshots that no product lists.
Orphans ==
    ((DOMAIN OrigData.price_accounts)
        \cup (DOMAIN OrigMetadata.price_accounts_metadata)
        \cup {id.bytes : id \in DOMAIN OrigLocal})
    \ UNION {Listed(p) : p \in OrigProducts}

\* C15: a price key of a snapshot that no product lists is in no row; the
\* orphan warning is written exactly when such a key remains, and names
\* those keys; the report is returned all the same, and a product without
\* metadata has no entry.
C15_OrphansWarned ==
    Built =>
        /\ \A n \in DOMAIN ret : DOMAIN ret[n].prices \cap Orphans = {}
        /\ warnings.orphaned # {} <=> Orphans # {}
        /\ \A w \in warnings.orphaned :
             w.remaining_price_ids = Orphans /\ w.remaining_product_ids = {}
        /\ warnings.missing = {}
        /\ \A n \in DOMAIN ret : ret[n].product \in OrigProducts
        /\ \A row \in render_result.rows : row.price_pubkey \notin Orphans

\* A report was returned with entries, an orphan warning for a key only the
\* local snapshot holds, and a confirmed product that has no metadata.
C15_Witness ==
    /\ Built
    /\ DOMAIN ret # {}
    /\ warnings.orphaned # {}
    /\ \E k \in Orphans : k \notin DOMAIN OrigData.price_accounts
    /\ 4 \in DOMAIN OrigData.product_accounts

\* ---------------------------------------------------------------- C17
Lookups ==
    <<"LookupAllPriceInfo", "LookupAllAccountsData", "LookupAllAccountsMetadata">>

\* The kinds of the replies a source has given (none when not received).
Kinds(source) == {reply.kind : reply \in replies[source]}

AllAnswered ==
    /\ requests = Lookups
    /\ \A source \in {"local", "data", "metadata"} : Kinds(source) = {"ok"}

\* C17: render_dashboard sends one lookup per source and returns a page only
\* after all three were sent and each was answered with a value; the page is
\* built from those three values. A lookup that cannot be sent, a reply that
\* does not arrive, or an Err in the reply of the global store for data or
\* metadata ends it with an error and no page.
C17_RenderNeedsThreeReplies ==
    /\ IsPrefix(requests, Lookups)
    /\ dash_pc \in {"build", "loop"} => AllAnswered
    /\ dash_pc = "done" =>
        /\ render_result.kind \in {"ok", "err"}
        /\ render_result.kind = "ok" <=> AllAnswered
        /\ render_result.kind = "ok" =>
             \E o \in Orderings(OrigProducts) :
                /\ ret = ViewFor(o)
                /\ render_result.rows = Rows(ViewFor(o))
        /\ render_result.kind = "err" =>
             render_result.rows = {} /\ ret = EmptyMap
    /\ dash_pc # "done" => render_result.kind = "none"

\* The metadata reply carried an Err after two good replies: no page.
C17_Witness ==
    /\ dash_pc = "done"
    /\ render_result.kind = "err"
    /\ Kinds("local") = {"ok"} /\ Kinds("data") = {"ok"}
    /\ Kinds("metadata") = {"err"}


\* ===================================================== claims: forwarding
\* ---------------------------------------------------------------- C24
\* The value the graph holds for the account an update is about.
GraphValue(d, u) ==
    IF u.type = "product"
    THEN Get(d.product_accounts, u.account_key)
    ELSE Get(d.price_accounts, u.account_key)

\* Updates of a poll cycle are sent only once the three maps are replaced
\* (the graph is whole and does not change any more), and each carries the
\* value of the rebuilt graph.
C24_SentAfterRebuild ==
    (ev.kind = "poll" /\ sent # <<>>) =>
        /\ PollRebuilt
        /\ DOMAIN data.product_accounts = ListedProducts(data)
        /\ DOMAIN data.price_accounts = ReachablePriceKeys(data)
        /\ \A i \in DOMAIN sent : GraphValue(data, sent[i]) = {sent[i].account}

\* In what the cycle has sent, and in what it has sent followed by what it
\* still sends, no PriceAccountUpdate comes before a ProductAccountUpdate.
C24_ProductsFirst ==
    ev.kind = "poll" =>
        LET all == IF oracle_pc = "notify" THEN sent \o to_send ELSE sent
        IN  \A i, j \in DOMAIN all :
                (i < j /\ all[i].type = "price") => all[j].type = "price"

\* A step of a poll cycle that sends is a step of the send stage and leaves
\* the graph as it is.
C24_Step ==
    (ev'.kind = "poll" /\ sent' # sent /\ sent' # <<>>) =>
        /\ oracle_pc = "notify"
        /\ data' = data
        /\ sent' = Append(sent, Head(to_send))

\* C24: within a poll cycle no update is sent before all three maps are
\* replaced, and every ProductAccountUpdate of the cycle is sent before any
\* PriceAccountUpdate of the cycle.
C24_RebuildThenProductsThenPrices ==
    []C24_SentAfterRebuild /\ []C24_ProductsFirst /\ [][C24_Step]_vars

\* A poll cycle in the middle of its sends: a product and a price update
\* are out, another price update is still to send.
C24_Witness ==
    /\ ev.kind = "poll"
    /\ oracle_pc = "notify"
    /\ Count(sent, "product") >= 1
    /\ Count(sent, "price") >= 1
    /\ to_send # <<>>


\* ---------------------------------------------------------------- C21
\* C21: while the global store holds its receiver, whenever the Oracle
\* waits for its next event, the last PriceAccountUpdate sent for each key
\* of the price map carries the value the graph holds for that key.
C21_DownstreamMirrorsPrices ==
    (global_open /\ oracle_pc = "idle") =>
        \A k \in DOMAIN data.price_accounts :
            k \in DOMAIN latest /\ latest[k] = data.price_accounts[k]

\* An applied push notification: two price accounts are mirrored, one with
\* the value of the notification, which the ledger does not hold.
C21_Witness ==
    /\ global_open
    /\ PushHandled /\ Applied
    /\ Cardinality(DOMAIN data.price_accounts) = 2
    /\ latest[ev.key] = data.price_accounts[ev.key]
    /\ latest[ev.key].val # 1


\* The marks of a sequence.
Marks(q) == {q[i] : i \in 1..Len(q)}

\* The marked notifications whose PriceAccountUpdate was sent downstream do
\* not repeat and keep the order in which the subscriber received them.
C22_InOrder == trace.seen \in {<<>>, <<1>>, <<2>>, <<1, 2>>}

\* Once the Oracle is back at its select! with the downstream receiver
\* alive, every marked notification it accepted has had its update sent.
C22_EachSent ==
    /\ Marks(trace.seen) \subseteq trace.accepted
    /\ (oracle_pc = "idle" /\ global_open) =>
          trace.accepted \subseteq Marks(trace.seen)

\* C22: the PriceAccountUpdates produced by accepted push notifications
\* arrive downstream in the order in which the subscriber received the
\* notifications from the feed, each accepted notification producing its
\* update exactly once: no reordering, no duplication, no loss while the
\* downstream receiver is alive.
C22_PushOrderPreserved == C22_InOrder /\ C22_EachSent

\* Two notifications were received, queued together in the push channel,
\* both accepted, and their updates were sent.
C22_Witness ==
    /\ trace.seen = <<1, 2>>
    /\ trace.accepted = {1, 2}
    /\ oracle_pc = "idle"


\* ---------------------------------------------------- claims: closed channel
\* The state of the Oracle task.
OracleState == <<oracle_pc, ev, data, to_send, pollVars>>

\* With the Subscriber gone the push channel is empty, the Oracle has not
\* left its loop, and at its select! the tick branch can be taken and the
\* recv branch cannot.
C23_WaitsForTick ==
    UpdatesClosed =>
        /\ updates_q = <<>>
        /\ oracle_pc # "exited"
        /\ oracle_pc = "idle" => ENABLED PollTick /\ ~ENABLED HandleAccountUpdate

\* With the Subscriber gone, a step of the Oracle at its select! begins a
\* poll cycle, and a return to the select! is the return of poll.
C23_Step ==
    UpdatesClosed =>
        /\ (oracle_pc = "idle" /\ OracleState' # OracleState) =>
              (oracle_pc' = "fetch_mapping_accounts" /\ ev' = PollEvent)
        /\ (oracle_pc # "idle" /\ oracle_pc' = "idle") =>
              (ev'.kind = "poll" /\ ev'.result # "running")

\* With the Subscriber gone, an Oracle at its select! goes on to a poll
\* cycle.
C23_TickTaken ==
    (UpdatesClosed /\ oracle_pc = "idle") ~> (oracle_pc = "fetch_mapping_accounts")

\* C23: after the Subscriber task has terminated (the push channel is closed
\* and empty) the Oracle neither terminates nor spins: every iteration of
\* its loop waits for the poll tick and runs one poll cycle, and the tick
\* is taken whenever the Oracle is back at its select!.
C23_PollsAfterSubscriberGone ==
    []C23_WaitsForTick /\ [][C23_Step]_vars /\ C23_TickTaken

\* The Subscriber has terminated and the Oracle, after a poll cycle that
\* filled its graph, has waited for the next tick and begun another cycle.
C23_Witness ==
    /\ UpdatesClosed
    /\ oracle_pc = "fetch_mapping_accounts"
    /\ ev = PollEvent
    /\ pre # EmptyData

====
